---- MODULE Spec2Model ----
(***************************************************************************)
(* A model of SlackParser.parse_message (src/src/slack_parser.py).         *)
(*                                                                         *)
(* A text is a sequence of one-character strings.  Every regular           *)
(* expression of the parser is translated into an operator that computes   *)
(* what Python's re module computes for it: leftmost match, greedy and     *)
(* lazy quantifiers with their backtracking order, IGNORECASE, DOTALL.     *)
(* parse_message is a state machine with one action per statement group.   *)
(*                                                                         *)
(* RedirectAutomation.run (src/src/main.py) is a second state machine,     *)
(* over the Slack channel, the sheet and the locals of run; it calls       *)
(* parse_message as a function of the message text.                        *)
(***************************************************************************)
EXTENDS Integers, Sequences, FiniteSets, TLC

VARIABLES message, pc, text, reason, redirects, requests,
          channel, sheet, run, calls

vars == <<message, pc, text, reason, redirects, requests,
          channel, sheet, run, calls>>

\* what parse_message does not touch: the Slack channel, the rows of the
\* sheet, the locals of RedirectAutomation.run and the log of its calls
world == <<channel, sheet, run, calls>>

\* the locals of parse_message
parser == <<message, pc, text, reason, redirects, requests>>

\* results as run initialises it
NoResults ==
  [messages_processed |-> 0, redirects_found |-> 0,
   redirects_sent_to_n8n |-> 0, errors |-> <<>>]

\* the locals of run before its first statement
NoRun ==
  [pc |-> "idle", n |-> 0, messages |-> <<>>, k |-> 1,
   all_redirects |-> <<>>, message_redirects |-> <<>>,
   results |-> NoResults, i |-> 1, j |-> 1]

\* no run is in progress and nothing was written
WorldIdle ==
  /\ channel = <<>>
  /\ sheet = <<>>
  /\ run = NoRun
  /\ calls = <<>>

(***************************************************************************)
(* Characters and small helpers                                            *)
(***************************************************************************)

\* str.lower() on the letters the patterns and the inputs use (re.IGNORECASE)
LowerOf ==
  [c \in {"A","D","E","F","H","I","L","M","N","O","R","S","T","V","X","Z",
          "U+00C3","U+00D3"} |->
     CASE c = "A" -> "a" [] c = "D" -> "d" [] c = "E" -> "e" [] c = "F" -> "f"
       [] c = "H" -> "h" [] c = "I" -> "i" [] c = "L" -> "l" [] c = "M" -> "m"
       [] c = "N" -> "n" [] c = "O" -> "o" [] c = "R" -> "r" [] c = "S" -> "s"
       [] c = "T" -> "t" [] c = "V" -> "v" [] c = "X" -> "x" [] c = "Z" -> "z"
       [] c = "U+00C3" -> "U+00E3" [] c = "U+00D3" -> "U+00F3"]

Lower(c) == IF c \in DOMAIN LowerOf THEN LowerOf[c] ELSE c

LowerText(t) == [i \in 1..Len(t) |-> Lower(t[i])]

\* the regex class \s, and str.strip()'s whitespace
IsSpace(c) == c \in {" ", "\n", "\t"}

SetMax(S) == CHOOSE x \in S : \A y \in S : y <= x

SetMin(S) == CHOOSE x \in S : \A y \in S : x <= y

\* t[i:] of Python, with i the 1-based index of the first character kept
Tail_(t, i) == SubSeq(t, i, Len(t))

\* the literal w occurs in t at index i
StartsWithAt(t, i, w) ==
  /\ i >= 1
  /\ i + Len(w) - 1 <= Len(t)
  /\ \A k \in 1..Len(w) : t[i + k - 1] = w[k]

\* the length of the first word of the alternation ws (a sequence of words,
\* in the alternation's order) that occurs in t at i; 0 when none does
AltLenAt(t, i, ws) ==
  LET hits == {k \in 1..Len(ws) : StartsWithAt(t, i, ws[k])}
  IN IF hits = {} THEN 0 ELSE Len(ws[SetMin(hits)])

\* the index after the maximal run of \s characters of t that starts at i
SkipSpaces(t, i) ==
  LET stop == {k \in i..Len(t) : ~IsSpace(t[k])}
  IN IF stop = {} THEN Len(t) + 1 ELSE SetMin(stop)

\* str.strip()
Strip(s) ==
  LET keep == {k \in 1..Len(s) : ~IsSpace(s[k])}
  IN IF keep = {} THEN <<>> ELSE SubSeq(s, SetMin(keep), SetMax(keep))

\* str.split('\n')
RECURSIVE SplitLines(_)
SplitLines(t) ==
  LET nl == {k \in 1..Len(t) : t[k] = "\n"}
  IN IF nl = {} THEN <<t>>
     ELSE <<SubSeq(t, 1, SetMin(nl) - 1)>> \o SplitLines(Tail_(t, SetMin(nl) + 1))

(***************************************************************************)
(* URL_PATTERN = https?://[^\s<>"'\]\)]+[^\s<>"'\]\)\.,;:!?]               *)
(***************************************************************************)

HTTP == <<"h","t","t","p",":","/","/">>

HTTPS == <<"h","t","t","p","s",":","/","/">>

\* [^\s<>"'\]\)]
UrlBodyChar(c) == ~IsSpace(c) /\ c \notin {"<", ">", "\"", "'", "]", ")"}

\* [^\s<>"'\]\)\.,;:!?]
UrlEndChar(c) == UrlBodyChar(c) /\ c \notin {".", ",", ";", ":", "!", "?"}

\* https?:// at i: its length, 0 when it does not match
SchemeLen(t, i) ==
  IF StartsWithAt(t, i, HTTPS) THEN Len(HTTPS)
  ELSE IF StartsWithAt(t, i, HTTP) THEN Len(HTTP)
  ELSE 0

\* The index of the last character of the match of URL_PATTERN that starts
\* at i, 0 when there is none: the greedy class run gives characters back
\* until the last one left satisfies the final class.
UrlMatchEnd(t, i) ==
  LET n == SchemeLen(t, i)
      s == i + n
      stop == {k \in s..Len(t) : ~UrlBodyChar(t[k])}
      e == IF stop = {} THEN Len(t) ELSE SetMin(stop) - 1
      ends == {p \in (s + 1)..e : UrlEndChar(t[p])}
  IN IF n = 0 \/ ends = {} THEN 0 ELSE SetMax(ends)

\* re.findall(URL_PATTERN, t), scanning from index i
RECURSIVE FindUrlsFrom(_, _)
FindUrlsFrom(t, i) ==
  LET hits == {k \in i..Len(t) : UrlMatchEnd(t, k) # 0}
  IN IF hits = {} THEN <<>>
     ELSE LET k == SetMin(hits)
              e == UrlMatchEnd(t, k)
          IN <<SubSeq(t, k, e)>> \o FindUrlsFrom(t, e + 1)

FindAllUrls(t) == FindUrlsFrom(t, 1)

\* re.search(URL_PATTERN, t) is not None
HasUrl(t) == \E i \in 1..Len(t) : UrlMatchEnd(t, i) # 0

(***************************************************************************)
(* _clean_slack_text: two re.sub passes                                    *)
(***************************************************************************)

NoMatch == [end |-> 0, gend |-> 0]

\* <(https?://[^|>]+)\|[^>]+> at i: the index of the closing '>' (end) and
\* of the last character of group 1 (gend); end = 0 when it does not match
PipeWrapperAt(t, i) ==
  LET n == SchemeLen(t, i + 1)
      s == i + 1 + n
      stop1 == {k \in s..Len(t) : t[k] \in {"|", ">"}}
      bar == IF stop1 = {} THEN 0 ELSE SetMin(stop1)
      stop2 == {k \in (bar + 1)..Len(t) : t[k] = ">"}
      close == IF stop2 = {} THEN 0 ELSE SetMin(stop2)
  IN IF /\ i <= Len(t) /\ t[i] = "<" /\ n # 0
        /\ bar > s /\ t[bar] = "|"
        /\ close > bar + 1
     THEN [end |-> close, gend |-> bar - 1]
     ELSE NoMatch

\* <(https?://[^>]+)> at i
PlainWrapperAt(t, i) ==
  LET n == SchemeLen(t, i + 1)
      s == i + 1 + n
      stop == {k \in s..Len(t) : t[k] = ">"}
      close == IF stop = {} THEN 0 ELSE SetMin(stop)
  IN IF i <= Len(t) /\ t[i] = "<" /\ n # 0 /\ close > s
     THEN [end |-> close, gend |-> close - 1]
     ELSE NoMatch

\* re.sub(r'<(https?://[^|>]+)\|[^>]+>', r'\1', t), scanning from index i
RECURSIVE SubPipeFrom(_, _)
SubPipeFrom(t, i) ==
  LET hits == {k \in i..Len(t) : PipeWrapperAt(t, k).end # 0}
  IN IF hits = {} THEN SubSeq(t, i, Len(t))
     ELSE LET k == SetMin(hits)
              m == PipeWrapperAt(t, k)
          IN SubSeq(t, i, k - 1) \o SubSeq(t, k + 1, m.gend)
               \o SubPipeFrom(t, m.end + 1)

\* re.sub(r'<(https?://[^>]+)>', r'\1', t), scanning from index i
RECURSIVE SubPlainFrom(_, _)
SubPlainFrom(t, i) ==
  LET hits == {k \in i..Len(t) : PlainWrapperAt(t, k).end # 0}
  IN IF hits = {} THEN SubSeq(t, i, Len(t))
     ELSE LET k == SetMin(hits)
              m == PlainWrapperAt(t, k)
          IN SubSeq(t, i, k - 1) \o SubSeq(t, k + 1, m.gend)
               \o SubPlainFrom(t, m.end + 1)

CleanSlackText(t) == SubPlainFrom(SubPipeFrom(t, 1), 1)

(***************************************************************************)
(* _extract_reason:                                                        *)
(*   (?:reason|raz[o..]n|motivo)\s*[:\-]?\s*(.+?)(?:\n|$)   IGNORECASE     *)
(* The character class of the source holds 'o' and the two characters      *)
(* U+00C3 and U+00B3; a character outside ASCII is written by its code     *)
(* point name.                                                             *)
(***************************************************************************)

None == [some |-> FALSE, val |-> <<>>]

Some(v) == [some |-> TRUE, val |-> v]

\* the class [o..] of the source, lower-cased
RazonClass == {"o", "U+00E3", "U+00B3"}

\* the label alternation at i of the lower-cased text: its length, or 0
ReasonLabelLenAt(lt, i) ==
  IF StartsWithAt(lt, i, <<"r","e","a","s","o","n">>) THEN 6
  ELSE IF /\ StartsWithAt(lt, i, <<"r","a","z">>)
          /\ i + 4 <= Len(lt)
          /\ lt[i + 3] \in RazonClass
          /\ lt[i + 4] = "n" THEN 5
  ELSE IF StartsWithAt(lt, i, <<"m","o","t","i","v","o">>) THEN 6
  ELSE 0

\* Where group 1 starts when the label ends before index k, 0 when the
\* pattern does not match there.  \s*[:\-]?\s* is greedy; when it runs into
\* the end of the text it gives characters back, last first, until '.' has
\* a character that is not a newline to match.
ReasonGroupStart(t, k) ==
  LET a == SkipSpaces(t, k)
      sep == a <= Len(t) /\ t[a] \in {":", "-"}
      p == IF sep THEN SkipSpaces(t, a + 1) ELSE a
      back == {q \in (IF sep THEN a + 1 ELSE k)..Len(t) : t[q] # "\n"}
  IN IF p <= Len(t) THEN p
     ELSE IF back # {} THEN SetMax(back)
     ELSE IF sep THEN a
     ELSE 0

ExtractReason(t) ==
  LET lt == LowerText(t)
      hits == {i \in 1..Len(t) :
                 /\ ReasonLabelLenAt(lt, i) # 0
                 /\ ReasonGroupStart(t, i + ReasonLabelLenAt(lt, i)) # 0}
  IN IF hits = {} THEN None
     ELSE LET i == SetMin(hits)
              p == ReasonGroupStart(t, i + ReasonLabelLenAt(lt, i))
              nl == {q \in p..Len(t) : t[q] = "\n"}
              e == IF nl = {} THEN Len(t) ELSE SetMin(nl) - 1
          IN Some(Strip(SubSeq(t, p, e)))

(***************************************************************************)
(* OLD_URL_PATTERNS, NEW_URL_PATTERNS (re.search, IGNORECASE)              *)
(***************************************************************************)

OLD_KEYWORDS ==
  << <<"o","l","d">>, <<"v","i","e","j","a">>,
     <<"a","n","t","i","g","u","a">>, <<"f","r","o","m">>, <<"d","e">>,
     <<"o","r","i","g","e","n">> >>

NEW_KEYWORDS ==
  << <<"n","e","w">>, <<"n","u","e","v","a">>, <<"t","o">>, <<"a">>,
     <<"d","e","s","t","i","n","o">>, <<"h","a","c","i","a">> >>

REDIRECT_VERBS ==
  << <<"r","e","d","i","r","i","g","i","r">>,
     <<"r","e","d","i","r","e","c","t">> >>

OLD_PREPOSITIONS == << <<"d","e","s","d","e">>, <<"f","r","o","m">> >>

NEW_PREPOSITIONS ==
  << <<"a">>, <<"t","o">>, <<"h","a","c","i","a">> >>

\* (?:kw1|kw2|...)s?\s*(?:ones?|urls?)?\s*[:\-]?\s* at i of the lower-cased
\* text: everything after the keyword may match the empty string, so the
\* pattern matches exactly where a keyword starts
KeywordPatternAt(lt, i, keywords) == AltLenAt(lt, i, keywords) # 0

\* (?:redirigir|redirect)\s+(?:prep1|prep2|...)\s*[:\-]?\s* at i
VerbPatternAt(lt, i, preps) ==
  LET n == AltLenAt(lt, i, REDIRECT_VERBS)
      j == SkipSpaces(lt, i + n)
  IN n # 0 /\ j > i + n /\ AltLenAt(lt, j, preps) # 0

\* re.search('|'.join(OLD_URL_PATTERNS), s, re.IGNORECASE) is not None
SearchOldPattern(s) ==
  LET lt == LowerText(s)
  IN \E i \in 1..Len(s) :
       KeywordPatternAt(lt, i, OLD_KEYWORDS) \/ VerbPatternAt(lt, i, OLD_PREPOSITIONS)

\* re.search('|'.join(NEW_URL_PATTERNS), s, re.IGNORECASE) is not None
SearchNewPattern(s) ==
  LET lt == LowerText(s)
  IN \E i \in 1..Len(s) :
       KeywordPatternAt(lt, i, NEW_KEYWORDS) \/ VerbPatternAt(lt, i, NEW_PREPOSITIONS)

(***************************************************************************)
(* Strategy A: _parse_labeled_format                                       *)
(***************************************************************************)

\* the section a line starts: 'old' is tested first
LineType(line, current_type) ==
  IF SearchOldPattern(line) THEN "old"
  ELSE IF SearchNewPattern(line) THEN "new"
  ELSE current_type

\* the loop over lines, from line k on, with the accumulators so far
RECURSIVE ScanLines(_, _, _, _, _)
ScanLines(lines, k, current_type, old_urls, new_urls) ==
  IF k > Len(lines) THEN [old_urls |-> old_urls, new_urls |-> new_urls]
  ELSE LET line == Strip(lines[k])
       IN IF line = <<>>
          THEN ScanLines(lines, k + 1, current_type, old_urls, new_urls)
          ELSE LET ty == LineType(line, current_type)
                   line_urls == FindAllUrls(line)
               IN ScanLines(lines, k + 1, ty,
                    IF ty = "old" THEN old_urls \o line_urls ELSE old_urls,
                    IF ty = "new" THEN new_urls \o line_urls ELSE new_urls)

LabeledScan(t) == ScanLines(SplitLines(t), 1, "none", <<>>, <<>>)

\* PairUp that pairs the OLD URLs beyond the NEW count with the last NEW URL
PairUpWithoutDiscard(old_urls, new_urls) ==
  IF old_urls = <<>> \/ new_urls = <<>> THEN <<>>
  ELSE [i \in 1..Len(old_urls) |->
          <<old_urls[i],
            new_urls[IF i <= Len(new_urls) THEN i ELSE Len(new_urls)]>>]

\* PairUp with the fan-in test "len(new_urls) == 1" written as "new_urls"
PairUpFanInAlways(old_urls, new_urls) ==
  IF old_urls = <<>> \/ new_urls = <<>> THEN <<>>
  ELSE [i \in 1..Len(old_urls) |-> <<old_urls[i], new_urls[1]>>]

\* "Create redirect pairs"
PairUp(old_urls, new_urls) ==
  IF old_urls = <<>> \/ new_urls = <<>> THEN <<>>
  ELSE IF Len(new_urls) = 1
       THEN [i \in 1..Len(old_urls) |-> <<old_urls[i], new_urls[1]>>]
  ELSE IF Len(old_urls) = Len(new_urls)
       THEN [i \in 1..Len(old_urls) |-> <<old_urls[i], new_urls[i]>>]
  ELSE LET n == IF Len(old_urls) < Len(new_urls) THEN Len(old_urls)
                ELSE Len(new_urls)
       IN [i \in 1..n |-> <<old_urls[i], new_urls[i]>>]

\* the two early returns of _parse_labeled_format do not apply
HasLabeledFormat(t) ==
  /\ Len(FindAllUrls(t)) >= 2
  /\ SearchOldPattern(t)
  /\ SearchNewPattern(t)

ParseLabeledFormat(t) ==
  IF ~HasLabeledFormat(t) THEN <<>>
  ELSE LET acc == LabeledScan(t) IN PairUp(acc.old_urls, acc.new_urls)

(***************************************************************************)
(* Strategy B: _parse_multi_old_urls                                       *)
(*   (?:old|vieja|antigua)s?\s*(?:ones?|urls?)?\s*[:\-](.+?)               *)
(*   (?:new|nueva|to|a|destino)                     IGNORECASE | DOTALL    *)
(***************************************************************************)

OLD_SECTION_KEYWORDS ==
  << <<"o","l","d">>, <<"v","i","e","j","a">>,
     <<"a","n","t","i","g","u","a">> >>

OLD_SECTION_NOUNS ==
  { <<"o","n","e">>, <<"o","n","e","s">>, <<"u","r","l">>, <<"u","r","l","s">> }

OLD_SECTION_END ==
  << <<"n","e","w">>, <<"n","u","e","v","a">>, <<"t","o">>, <<"a">>,
     <<"d","e","s","t","i","n","o">> >>

\* The index of the separator [:\-] that ends the label part started by a
\* keyword at i, 0 when the label part does not match.  The optional parts
\* consume only letters and whitespace, so every way of matching them ends
\* at the same separator.
OldSectionSep(lt, i) ==
  LET n == AltLenAt(lt, i, OLD_SECTION_KEYWORDS)
      j0 == i + n
      a1 == {j0} \cup (IF j0 <= Len(lt) /\ lt[j0] = "s" THEN {j0 + 1} ELSE {})
      a2 == UNION {j..SkipSpaces(lt, j) : j \in a1}
      a3 == a2 \cup UNION {{j + Len(w) : w \in {v \in OLD_SECTION_NOUNS :
                               StartsWithAt(lt, j, v)}} : j \in a2}
      a4 == UNION {j..SkipSpaces(lt, j) : j \in a3}
      seps == {q \in a4 : q <= Len(lt) /\ lt[q] \in {":", "-"}}
  IN IF n = 0 \/ seps = {} THEN 0 ELSE SetMin(seps)

\* The first index after the separator q at which the lazy group (.+?),
\* having matched at least one character, is followed by an end keyword;
\* 0 when there is none
OldSectionStop(lt, q) ==
  LET stops == {r \in (q + 2)..Len(lt) : AltLenAt(lt, r, OLD_SECTION_END) # 0}
  IN IF stops = {} THEN 0 ELSE SetMin(stops)

\* re.search(old_section_pattern, t): group 1 is t[gs..ge], match.end() is
\* the index end; found is FALSE when there is no match
OldSectionMatch(t) ==
  LET lt == LowerText(t)
      hits == {i \in 1..Len(t) :
                 /\ OldSectionSep(lt, i) # 0
                 /\ OldSectionStop(lt, OldSectionSep(lt, i)) # 0}
  IN IF hits = {} THEN [found |-> FALSE, gs |-> 0, ge |-> 0, end |-> 0]
     ELSE LET q == OldSectionSep(lt, SetMin(hits))
              r == OldSectionStop(lt, q)
          IN [found |-> TRUE, gs |-> q + 1, ge |-> r - 1,
              end |-> r + AltLenAt(lt, r, OLD_SECTION_END) - 1]

ParseMultiOldUrls(t) ==
  LET m == OldSectionMatch(t)
  IN IF ~m.found THEN <<>>
     ELSE LET old_urls == FindAllUrls(SubSeq(t, m.gs, m.ge))
              new_urls == FindAllUrls(Tail_(t, m.end + 1))
          IN IF old_urls # <<>> /\ new_urls # <<>>
             THEN [i \in 1..Len(old_urls) |-> <<old_urls[i], new_urls[1]>>]
             ELSE <<>>

(***************************************************************************)
(* Strategy C: _parse_sequential_urls, _same_domain                        *)
(***************************************************************************)

\* urlparse(url).netloc of a URL token: what follows '://' up to the first
\* of '/', '?' and '#'
Netloc(url) ==
  LET s == SchemeLen(url, 1) + 1
      stop == {k \in s..Len(url) : url[k] \in {"/", "?", "#"}}
  IN SubSeq(url, s, IF stop = {} THEN Len(url) ELSE SetMin(stop) - 1)

\* urlsplit raises ValueError("Invalid IPv6 URL") when the netloc holds one
\* of '[' and ']' without the other
UrlparseRaises(url) ==
  LET chars == {Netloc(url)[k] : k \in 1..Len(Netloc(url))}
  IN ("[" \in chars) # ("]" \in chars)

SameDomain(url1, url2) ==
  IF UrlparseRaises(url1) \/ UrlparseRaises(url2) THEN FALSE
  ELSE Netloc(url1) = Netloc(url2)

ParseSequentialUrls(t) ==
  LET urls == FindAllUrls(t)
  IN IF Len(urls) < 2 THEN <<>>
     ELSE IF Len(urls) = 2 /\ SameDomain(urls[1], urls[2])
          THEN << <<urls[1], urls[2]>> >>
     ELSE <<>>

(***************************************************************************)
(* parse_message                                                           *)
(***************************************************************************)

\* NeedsFallback with the test "if not redirects" left out
AlwaysFallback(found) == TRUE

\* NeedsFallback when no later strategy is ever tried
NeverFallback(found) == FALSE

\* "if not redirects": the next strategy is tried
NeedsFallback(found) == found = <<>>

\* "Convert to RedirectRequest objects"
MakeRequests(pairs, why) ==
  [i \in 1..Len(pairs) |->
     [old_url |-> pairs[i][1], new_url |-> pairs[i][2], reason |-> why]]

\* text = self._clean_slack_text(message.get("text", ""))
Clean ==
  /\ pc = "clean"
  /\ text' = CleanSlackText(message)
  /\ pc' = "reason"
  /\ UNCHANGED <<message, reason, redirects, requests>>
  /\ UNCHANGED world

\* reason = self._extract_reason(text)
Reason ==
  /\ pc = "reason"
  /\ reason' = ExtractReason(text)
  /\ pc' = "labeled"
  /\ UNCHANGED <<message, text, redirects, requests>>
  /\ UNCHANGED world

\* redirects = self._parse_labeled_format(text)
TryLabeled ==
  /\ pc = "labeled"
  /\ redirects' = ParseLabeledFormat(text)
  /\ pc' = "multi"
  /\ UNCHANGED <<message, text, reason, requests>>
  /\ UNCHANGED world

\* if not redirects: redirects = self._parse_multi_old_urls(text)
TryMulti ==
  /\ pc = "multi"
  /\ NeedsFallback(redirects)
  /\ redirects' = ParseMultiOldUrls(text)
  /\ pc' = "sequential"
  /\ UNCHANGED <<message, text, reason, requests>>
  /\ UNCHANGED world

SkipMulti ==
  /\ pc = "multi"
  /\ ~NeedsFallback(redirects)
  /\ pc' = "sequential"
  /\ UNCHANGED <<message, text, reason, redirects, requests>>
  /\ UNCHANGED world

\* if not redirects: redirects = self._parse_sequential_urls(text)
TrySequential ==
  /\ pc = "sequential"
  /\ NeedsFallback(redirects)
  /\ redirects' = ParseSequentialUrls(text)
  /\ pc' = "build"
  /\ UNCHANGED <<message, text, reason, requests>>
  /\ UNCHANGED world

SkipSequential ==
  /\ pc = "sequential"
  /\ ~NeedsFallback(redirects)
  /\ pc' = "build"
  /\ UNCHANGED <<message, text, reason, redirects, requests>>
  /\ UNCHANGED world

\* the loop that builds the RedirectRequest list, and the return
Build ==
  /\ pc = "build"
  /\ requests' = MakeRequests(redirects, reason)
  /\ pc' = "done"
  /\ UNCHANGED <<message, text, reason, redirects>>
  /\ UNCHANGED world

Next ==
  \/ Clean
  \/ Reason
  \/ TryLabeled
  \/ TryMulti
  \/ SkipMulti
  \/ TrySequential
  \/ SkipSequential
  \/ Build

\* the state in which parse_message is entered with the text msg
Entered(msg) ==
  /\ message = msg
  /\ pc = "clean"
  /\ text = <<>>
  /\ reason = None
  /\ redirects = <<>>
  /\ requests = <<>>
  /\ WorldIdle

(***************************************************************************)
(* Input messages.  A message is built from whole lines (or, for the       *)
(* chat markup, from pieces) written out character by character.           *)
(***************************************************************************)

MaxLines == 4

MaxPieces == 3

NL == <<"\n">>

\* '\n'.join(lines)
RECURSIVE JoinLines(_)
JoinLines(lines) ==
  IF Len(lines) = 0 THEN <<>>
  ELSE IF Len(lines) = 1 THEN lines[1]
  ELSE lines[1] \o NL \o JoinLines(Tail(lines))

\* ''.join(pieces)
RECURSIVE Concat(_)
Concat(pieces) ==
  IF Len(pieces) = 0 THEN <<>> ELSE pieces[1] \o Concat(Tail(pieces))

\* the messages of 1..n lines drawn from kinds
Messages(kinds, n) ==
  UNION {{JoinLines(ls) : ls \in [1..k -> kinds]} : k \in 1..n}

W_OldOnes == <<"O","l","d"," ","o","n","e","s",":"," ">>

W_OLD == <<"O","L","D",":"," ">>

W_Old == <<"O","l","d",":"," ">>

W_New == <<"N","e","w",":"," ">>

W_Reason == <<"R","e","a","s","o","n",":">>

U_xb == HTTP \o <<"x","/","b">>

U_xc == HTTP \o <<"x","/","c">>

U_xa == HTTP \o <<"x","/","a">>

U_xde == HTTP \o <<"x","/","d","e">>

U_yb == HTTP \o <<"y","/","b">>

U_yde == HTTP \o <<"y","/","d","e">>

U_yc == HTTP \o <<"y","/","c">>

\* labelled and unlabelled URL lines; the URLs differ in host and in the
\* keyword substrings ('a', 'de') their paths hold
LabelledLines ==
  { W_OldOnes \o U_xb,
    W_OLD \o U_xa,
    W_New \o U_xc,
    W_New \o U_yde,
    U_xa,
    U_yb,
    W_Old \o U_xa \o U_yb }

\* labelled lines with one and with two URLs, and a line without a label:
\* accumulators of different sizes
TieBreakLines ==
  { W_Old \o U_xb,
    W_Old \o U_xb \o <<" ">> \o U_yb,
    W_New \o U_xc,
    W_New \o U_xc \o <<" ">> \o U_yc,
    U_yb }

\* messages without any label: URLs only, of two hosts
BareLines == { U_xa, U_xb, U_xde, U_yb, U_yde }

\* request lines with a reason line, a line that ends after the label, and
\* prose that holds the word 'reason'
ReasonLines ==
  { W_OldOnes \o U_xb,
    W_New \o U_xc,
    U_yb,
    W_Reason \o <<" "," ","X"," ","y"," ">>,
    W_Reason,
    <<"n","o"," ","r","e","a","s","o","n">>,
    <<"t","h","a","n","k","s">> }

\* chat markup: wrappers, with and without a label, and bare brackets
MarkupPieces ==
  { <<"<">>,
    <<">">>,
    <<"<">> \o U_xb \o <<">">>,
    <<"<">> \o U_xc \o <<"|","L",">">>,
    <<"<">> \o U_xb \o <<"|",">">>,
    U_xb,
    <<"|","L">> }

\* a request in which the new URL is given in chat markup, or markup alone
MarkupPrefixes == { <<>>, W_Old \o U_xb \o NL \o W_New }

MarkupMessages ==
  {pre \o Concat(ps) :
     pre \in MarkupPrefixes,
     ps \in UNION {[1..k -> MarkupPieces] : k \in 1..MaxPieces}}

\* reason lines under each label of _extract_reason, in several letter
\* cases; U+00F3 and U+00D3 are the accented o, small and capital
L_REASON == <<"R","E","A","S","O","N",":"," ","X">>

L_Razon == <<"R","a","z","o","n",":"," ","X">>

L_razon_acute == <<"r","a","z","U+00F3","n",":"," ","X">>

L_RAZON_acute == <<"R","A","Z","U+00D3","N","-"," ","X">>

L_Motivo == <<"M","o","t","i","v","o",":"," ","X">>

L_thanks == <<"t","h","a","n","k","s">>

L_request == W_Old \o U_xb \o <<" ">> \o W_New \o U_xc

LabelLines ==
  { L_REASON, L_Razon, L_razon_acute, L_RAZON_acute, L_Motivo, L_thanks, U_yb,
    L_request }

\* URLs in prose: brackets, quotes and sentence punctuation next to a URL
PunctPieces ==
  { U_xc, <<"(">>, <<")">>, <<"[">>, <<"]">>, <<".">>, <<"?">>, <<"'">>, <<" ">> }

\* a request whose new URL is followed by such characters, or prose alone
PunctPrefixes == { <<>>, W_Old \o U_xb \o NL \o W_New }

PunctMessages ==
  {pre \o Concat(ps) :
     pre \in PunctPrefixes,
     ps \in UNION {[1..k -> PunctPieces] : k \in 1..MaxPieces}}

Init == \E msg \in Messages(LabelledLines, MaxLines) : Entered(msg)

InitBare == \E msg \in Messages(BareLines, MaxLines) : Entered(msg)

InitReason == \E msg \in Messages(ReasonLines, MaxLines) : Entered(msg)

InitMarkup == \E msg \in MarkupMessages : Entered(msg)

InitTieBreak ==
  \E msg \in Messages(TieBreakLines, MaxLines - 1) : Entered(msg)

InitPunct == \E msg \in PunctMessages : Entered(msg)

InitLabel == \E msg \in Messages(LabelLines, MaxLines) : Entered(msg)

Spec == Init /\ [][Next]_vars

SpecBare == InitBare /\ [][Next]_vars

SpecReason == InitReason /\ [][Next]_vars

SpecMarkup == InitMarkup /\ [][Next]_vars

SpecTieBreak == InitTieBreak /\ [][Next]_vars

SpecPunct == InitPunct /\ [][Next]_vars

SpecLabel == InitLabel /\ [][Next]_vars

(***************************************************************************)
(* The Slack channel: get_unprocessed_messages and mark_as_processed       *)
(***************************************************************************)

MaxMessages == 2

MaxRuns == 2

MaxCalls == 3

\* the messages of the channel by what they hold: a request for one
\* redirect, one for three (fan-in), two links that are no request, chat
\* without a URL, a message without text, and a bot's message
MsgKinds == {"request", "fanin", "links", "chat", "empty", "bot"}

\* message.get("text")
MsgText(kind) ==
  CASE kind = "request" -> W_Old \o U_xb \o NL \o W_New \o U_xc
    [] kind = "fanin" ->
         W_OldOnes \o U_xb \o NL \o U_yb \o NL \o U_yc \o NL \o W_New \o U_xc
    [] kind = "links" -> U_xb \o NL \o U_yb
    [] kind = "chat" -> L_thanks
    [] kind = "empty" -> <<>>
    [] kind = "bot" -> W_Old \o U_xb \o NL \o W_New \o U_xc

\* message.get("subtype")
MsgSubtype(kind) == IF kind = "bot" THEN "bot_message" ELSE "none"

\* a channel: its messages by ts, each with its kind and whether it
\* carries the reaction Config.PROCESSED_EMOJI
Channels == [1..MaxMessages -> [kind : MsgKinds, reacted : BOOLEAN]]

\* the filter with the test has_processed_emoji left out
UnprocessedIgnoringReaction(m) ==
  /\ MsgSubtype(m.kind) # "bot_message"
  /\ MsgText(m.kind) # <<>>
  /\ HasUrl(MsgText(m.kind))

\* the body of the loop of get_unprocessed_messages: m is appended
Unprocessed(m) ==
  /\ MsgSubtype(m.kind) # "bot_message"
  /\ MsgText(m.kind) # <<>>
  /\ ~m.reacted
  /\ HasUrl(MsgText(m.kind))

\* the ts of the messages of conversations_history, newest first, that the
\* loop appends
RECURSIVE UnprocessedFrom(_, _)
UnprocessedFrom(ch, ts) ==
  IF ts = 0 THEN <<>>
  ELSE (IF Unprocessed(ch[ts]) THEN <<ts>> ELSE <<>>)
         \o UnprocessedFrom(ch, ts - 1)

GetUnprocessedMessages(ch) == UnprocessedFrom(ch, Len(ch))

\* an error of the Slack API other than already_reacted
OtherSlackErrors == {"ratelimited"}

\* what reactions_add can answer for the message ts
ReactionsAddOutcomes(ch, ts) ==
  (IF ch[ts].reacted THEN {"already_reacted"} ELSE {"ok"}) \cup OtherSlackErrors

\* the channel after reactions_add answered out
AfterReactionsAdd(ch, ts, out) ==
  IF out = "ok" THEN [ch EXCEPT ![ts].reacted = TRUE] ELSE ch

\* mark_as_processed that reports already_reacted as a failure
MarkAsProcessedStrict(out) == out = "ok"

\* the value mark_as_processed returns when reactions_add answered out
MarkAsProcessed(out) == out = "ok" \/ out = "already_reacted"

\* one entry of the log of calls
Call(op, arg, ok, error) ==
  [run |-> run.n, op |-> op, arg |-> arg, ok |-> ok, error |-> error]

\* parse_message is not running
ParserIdle ==
  /\ message = <<>>
  /\ pc = "idle"
  /\ text = <<>>
  /\ reason = None
  /\ redirects = <<>>
  /\ requests = <<>>

\* a caller of mark_as_processed outside a run
CallMarkAsProcessed ==
  /\ run.pc = "idle"
  /\ Len(calls) < MaxCalls
  /\ \E ts \in 1..Len(channel) : \E out \in ReactionsAddOutcomes(channel, ts) :
       /\ channel' = AfterReactionsAdd(channel, ts, out)
       /\ calls' = Append(calls, Call("mark", ts, MarkAsProcessed(out), out))
  /\ UNCHANGED <<sheet, run>>
  /\ UNCHANGED parser

InitMark ==
  /\ ParserIdle
  /\ channel \in Channels
  /\ sheet = <<>>
  /\ run = NoRun
  /\ calls = <<>>

NextMark == CallMarkAsProcessed

SpecMark == InitMark /\ [][NextMark]_vars

(***************************************************************************)
(* RedirectAutomation.run                                                  *)
(***************************************************************************)

\* Config.MAX_REDIRECTS_PER_BATCH
MAX_REDIRECTS_PER_BATCH == 5

\* the RedirectRequests parse_message returned for the message ts, each
\* with its message_ts
RequestsOf(reqs, ts) ==
  [i \in 1..Len(reqs) |->
     [old_url |-> reqs[i].old_url, new_url |-> reqs[i].new_url,
      reason |-> reqs[i].reason, message_ts |-> ts]]

\* the rows write_redirects appends for the redirects rs
Rows(rs) ==
  [i \in 1..Len(rs) |->
     [old_url |-> rs[i].old_url, new_url |-> rs[i].new_url,
      reason |-> rs[i].reason.val, message_ts |-> rs[i].message_ts,
      status |-> "pending"]]

\* a slice that takes one redirect more than the batch size
BatchTooLong(rs, i) ==
  SubSeq(rs, i, IF i + MAX_REDIRECTS_PER_BATCH < Len(rs)
                THEN i + MAX_REDIRECTS_PER_BATCH ELSE Len(rs))

\* all_redirects[i:i + batch_size]
Batch(rs, i) ==
  SubSeq(rs, i, IF i + MAX_REDIRECTS_PER_BATCH - 1 < Len(rs)
                THEN i + MAX_REDIRECTS_PER_BATCH - 1 ELSE Len(rs))

\* results['errors'].append(msg)
WithError(r, msg) == [r EXCEPT !.results.errors = Append(@, msg)]

\* return results
Returned(r) == [r EXCEPT !.pc = "returned"]

\* run is entered and Config.validate() finds nothing missing
StartRun ==
  /\ run.pc \in {"idle", "returned"}
  /\ run.n < MaxRuns
  /\ run' = [NoRun EXCEPT !.pc = "ensure", !.n = run.n + 1]
  /\ UNCHANGED <<channel, sheet, calls>>
  /\ UNCHANGED parser

\* run is entered and Config.validate() reports a missing setting
MissingConfig ==
  /\ run.pc \in {"idle", "returned"}
  /\ run.n < MaxRuns
  /\ run' = Returned(WithError([NoRun EXCEPT !.n = run.n + 1],
                               "Missing configuration"))
  /\ UNCHANGED <<channel, sheet, calls>>
  /\ UNCHANGED parser

\* Step 1: ensure_sheet_exists returns True
EnsureSheetOk ==
  /\ run.pc = "ensure"
  /\ run' = [run EXCEPT !.pc = "fetch"]
  /\ calls' = Append(calls, Call("ensure", 0, TRUE, "ok"))
  /\ UNCHANGED <<channel, sheet>>
  /\ UNCHANGED parser

\* Step 1: ensure_sheet_exists returns False
EnsureSheetFails ==
  /\ run.pc = "ensure"
  /\ run' = Returned(WithError(run, "Failed to ensure sheet exists"))
  /\ calls' = Append(calls, Call("ensure", 0, FALSE, "HttpError"))
  /\ UNCHANGED <<channel, sheet>>
  /\ UNCHANGED parser

\* Step 2: get_unprocessed_messages; run returns when it is empty
FetchMessages ==
  /\ run.pc = "fetch"
  /\ LET found == GetUnprocessedMessages(channel)
     IN /\ run' = IF found = <<>> THEN Returned(run)
                  ELSE [run EXCEPT !.pc = "parse", !.messages = found]
        /\ calls' = Append(calls, Call("fetch", found, TRUE, "ok"))
  /\ UNCHANGED <<channel, sheet>>
  /\ UNCHANGED parser

\* Step 2: conversations_history raises SlackApiError; the list is empty
FetchFails ==
  /\ run.pc = "fetch"
  /\ run' = Returned(run)
  /\ calls' = Append(calls, Call("fetch", <<>>, FALSE, "SlackApiError"))
  /\ UNCHANGED <<channel, sheet>>
  /\ UNCHANGED parser

\* Step 3: the loop over messages calls parse_message(message)
EnterParse ==
  /\ run.pc = "parse"
  /\ pc = "idle"
  /\ message' = MsgText(channel[run.messages[run.k]].kind)
  /\ pc' = "clean"
  /\ text' = <<>>
  /\ reason' = None
  /\ redirects' = <<>>
  /\ requests' = <<>>
  /\ UNCHANGED world

\* Step 3: parse_message has returned; the rest of the loop body
CollectParse ==
  /\ run.pc = "parse"
  /\ pc = "done"
  /\ LET ts == run.messages[run.k]
         found == RequestsOf(requests, ts)
         last == run.k = Len(run.messages)
     IN /\ run' = [run EXCEPT
                     !.all_redirects = @ \o found,
                     !.message_redirects =
                        IF found # <<>> THEN Append(@, ts) ELSE @,
                     !.k = @ + 1,
                     !.pc = IF last THEN "count" ELSE "parse"]
        /\ calls' = Append(calls, Call("parse", ts, found # <<>>, "ok"))
  /\ message' = <<>>
  /\ pc' = "idle"
  /\ text' = <<>>
  /\ reason' = None
  /\ redirects' = <<>>
  /\ requests' = <<>>
  /\ UNCHANGED <<channel, sheet>>

\* the counters of results; run returns when no redirect was found
CountRedirects ==
  /\ run.pc = "count"
  /\ LET counted == [run EXCEPT
                       !.results.messages_processed = Len(run.messages),
                       !.results.redirects_found = Len(run.all_redirects)]
     IN run' = IF run.all_redirects = <<>> THEN Returned(counted)
               ELSE [counted EXCEPT !.pc = "write"]
  /\ UNCHANGED <<channel, sheet, calls>>
  /\ UNCHANGED parser

\* Step 4: write_redirects appends the rows and returns True
WriteOk ==
  /\ run.pc = "write"
  /\ sheet' = sheet \o Rows(run.all_redirects)
  /\ run' = [run EXCEPT !.pc = "send", !.i = 1]
  /\ calls' = Append(calls, Call("write", run.all_redirects, TRUE, "ok"))
  /\ UNCHANGED channel
  /\ UNCHANGED parser

\* a run that goes on to Step 5 after write_redirects returned False
WriteFailsContinues ==
  /\ run.pc = "write"
  /\ run' = [WithError(run, "Failed to write redirects to sheet")
               EXCEPT !.pc = "send", !.i = 1]
  /\ calls' = Append(calls,
                     Call("write", run.all_redirects, FALSE, "HttpError"))
  /\ UNCHANGED <<channel, sheet>>
  /\ UNCHANGED parser

\* Step 4: write_redirects returns False
WriteFails ==
  /\ run.pc = "write"
  /\ run' = Returned(WithError(run, "Failed to write redirects to sheet"))
  /\ calls' = Append(calls,
                     Call("write", run.all_redirects, FALSE, "HttpError"))
  /\ UNCHANGED <<channel, sheet>>
  /\ UNCHANGED parser

\* the locals after the batch that starts at run.i
AfterBatch(r) ==
  [r EXCEPT !.i = @ + MAX_REDIRECTS_PER_BATCH,
            !.j = 1,
            !.pc = IF r.i + MAX_REDIRECTS_PER_BATCH <= Len(r.all_redirects)
                   THEN "send" ELSE "mark"]

\* Step 5: one batch, send_batch answers success
SendBatchOk ==
  /\ run.pc = "send"
  /\ LET batch == Batch(run.all_redirects, run.i)
     IN /\ run' = AfterBatch([run EXCEPT
                                !.results.redirects_sent_to_n8n = @ + Len(batch)])
        /\ calls' = Append(calls, Call("send", batch, TRUE, "ok"))
  /\ UNCHANGED <<channel, sheet>>
  /\ UNCHANGED parser

\* a run that returns at the first batch send_batch answers an error for
SendBatchFailsStops ==
  /\ run.pc = "send"
  /\ LET batch == Batch(run.all_redirects, run.i)
     IN /\ run' = Returned(WithError(run, "Failed to send batch to N8N"))
        /\ calls' = Append(calls, Call("send", batch, FALSE, "HTTP error"))
  /\ UNCHANGED <<channel, sheet>>
  /\ UNCHANGED parser

\* Step 5: one batch, send_batch answers an error
SendBatchFails ==
  /\ run.pc = "send"
  /\ LET batch == Batch(run.all_redirects, run.i)
     IN /\ run' = AfterBatch(WithError(run, "Failed to send batch to N8N"))
        /\ calls' = Append(calls, Call("send", batch, FALSE, "HTTP error"))
  /\ UNCHANGED <<channel, sheet>>
  /\ UNCHANGED parser

\* Step 6: one iteration of the loop over message_redirects.keys()
MarkNext ==
  /\ run.pc = "mark"
  /\ LET ts == run.message_redirects[run.j]
         last == run.j = Len(run.message_redirects)
     IN \E out \in ReactionsAddOutcomes(channel, ts) :
          LET ok == MarkAsProcessed(out)
              r == IF ok THEN run
                   ELSE WithError(run, "Failed to mark message as processed")
          IN /\ channel' = AfterReactionsAdd(channel, ts, out)
             /\ run' = [r EXCEPT !.j = @ + 1,
                                 !.pc = IF last THEN "returned" ELSE "mark"]
             /\ calls' = Append(calls, Call("mark", ts, ok, out))
  /\ UNCHANGED sheet
  /\ UNCHANGED parser

InitRun ==
  /\ ParserIdle
  /\ channel \in Channels
  /\ sheet = <<>>
  /\ run = NoRun
  /\ calls = <<>>

NextRun ==
  \/ StartRun
  \/ MissingConfig
  \/ EnsureSheetOk
  \/ EnsureSheetFails
  \/ FetchMessages
  \/ FetchFails
  \/ EnterParse
  \/ Clean
  \/ Reason
  \/ TryLabeled
  \/ TryMulti
  \/ SkipMulti
  \/ TrySequential
  \/ SkipSequential
  \/ Build
  \/ CollectParse
  \/ CountRedirects
  \/ WriteOk
  \/ WriteFails
  \/ SendBatchOk
  \/ SendBatchFails
  \/ MarkNext

SpecRun == InitRun /\ [][NextRun]_vars

(***************************************************************************)
(* Vocabulary of the properties                                            *)
(***************************************************************************)

\* the (old_url, new_url) pairs of a list of RedirectRequests, in order
Pairs(reqs) == [i \in 1..Len(reqs) |-> <<reqs[i].old_url, reqs[i].new_url>>]

\* s is exactly one URL-syntax token
IsUrlToken(s) == FindAllUrls(s) = <<s>>

\* line is one of the label words followed by exactly one URL token
LabelledUrlLine(line, labels) ==
  \E w \in labels : StartsWithAt(line, 1, w) /\ IsUrlToken(Tail_(line, Len(w) + 1))

\* the URL token of such a line
UrlOfLine(line, labels) ==
  LET w == CHOOSE v \in labels : StartsWithAt(line, 1, v)
  IN Tail_(line, Len(w) + 1)

OldLabelWords == {W_OldOnes, W_OLD, W_Old}

ColonOldLabelWords == {W_OLD, W_Old}

NewLabelWords == {W_New}

\* every line of t is blank or exactly one URL token: a text without labels
UrlsOnly(t) ==
  \A k \in 1..Len(SplitLines(t)) :
    LET line == Strip(SplitLines(t)[k]) IN line = <<>> \/ IsUrlToken(line)

(***************************************************************************)
(* C1: when the normalized text holds zero or one URL token, parse_message *)
(* returns the empty list.                                                 *)
(***************************************************************************)
C1_FewUrlsYieldNothing ==
  (pc = "done" /\ Len(FindAllUrls(text)) <= 1) => requests = <<>>

(***************************************************************************)
(* C2: fan-in.  When the first line is an old label with a URL, the lines  *)
(* after it are bare URLs and the last line is 'New:' with one URL, the    *)
(* result is one request per old URL, in input order, each to the new URL. *)
(***************************************************************************)
FanInShape(lines) ==
  /\ Len(lines) >= 2
  /\ LabelledUrlLine(lines[1], OldLabelWords)
  /\ \A k \in 2..(Len(lines) - 1) : IsUrlToken(lines[k])
  /\ LabelledUrlLine(lines[Len(lines)], NewLabelWords)

FanInExpected(lines) ==
  [i \in 1..(Len(lines) - 1) |->
     << IF i = 1 THEN UrlOfLine(lines[1], OldLabelWords) ELSE lines[i],
        UrlOfLine(lines[Len(lines)], NewLabelWords) >>]

C2_FanIn ==
  (pc = "done" /\ FanInShape(SplitLines(message)))
    => Pairs(requests) = FanInExpected(SplitLines(message))

(***************************************************************************)
(* C3: one 'Old:' line with one URL, a later 'New:' line with one URL and  *)
(* otherwise only lines without URLs give exactly one request, from the    *)
(* whole URL of the old line to the whole URL of the new line.             *)
(***************************************************************************)
OldNewShape(lines, i, j) ==
  /\ i < j
  /\ LabelledUrlLine(lines[i], ColonOldLabelWords)
  /\ LabelledUrlLine(lines[j], NewLabelWords)
  /\ \A k \in 1..Len(lines) : k \notin {i, j} => ~HasUrl(lines[k])

C3_OldNewPair ==
  pc = "done" =>
    \A i, j \in 1..Len(SplitLines(message)) :
      OldNewShape(SplitLines(message), i, j) =>
        Pairs(requests) =
          << << UrlOfLine(SplitLines(message)[i], ColonOldLabelWords),
                UrlOfLine(SplitLines(message)[j], NewLabelWords) >> >>

(***************************************************************************)
(* C4: when Strategy A applies and its old and new accumulators hold the   *)
(* same number k >= 1 of URLs, parse_message returns exactly the pairs     *)
(* (old[i], new[i]), i = 1..k, in order.                                   *)
(***************************************************************************)
EqualCounts(t) ==
  LET acc == LabeledScan(t)
  IN /\ HasLabeledFormat(t)
     /\ acc.old_urls # <<>>
     /\ Len(acc.old_urls) = Len(acc.new_urls)

BothAandC(t) == HasLabeledFormat(t) /\ Len(FindAllUrls(t)) = 2

C5_Original ==
  (pc = "done" /\ BothAandC(text)) => Pairs(requests) = ParseLabeledFormat(text)

\* C5 as amended: the same, for the texts on which _parse_labeled_format
\* yields at least one pair; then the result is never Strategy C's output
\* where the two differ.
C5_LabeledWinsWhenNonEmpty ==
  (pc = "done" /\ BothAandC(text) /\ ParseLabeledFormat(text) # <<>>) =>
    /\ Pairs(requests) = ParseLabeledFormat(text)
    /\ ParseSequentialUrls(text) # ParseLabeledFormat(text)
         => Pairs(requests) # ParseSequentialUrls(text)

C5_Witness ==
  /\ pc = "done"
  /\ BothAandC(text)
  /\ ParseLabeledFormat(text) # <<>>
  /\ ParseSequentialUrls(text) # <<>>
  /\ ParseSequentialUrls(text) # ParseLabeledFormat(text)
  /\ Pairs(requests) = ParseLabeledFormat(text)

(***************************************************************************)
(* C6: a text without labels that holds exactly two URLs u1, u2 gives the  *)
(* one pair (u1, u2) when the hosts are equal and no pair when they differ.*)
(***************************************************************************)
C6_TwoUnlabeledUrls ==
  (pc = "done" /\ UrlsOnly(text) /\ Len(FindAllUrls(text)) = 2) =>
    LET u1 == FindAllUrls(text)[1]
        u2 == FindAllUrls(text)[2]
    IN Pairs(requests) =
         IF Netloc(u1) = Netloc(u2) THEN << <<u1, u2>> >> ELSE <<>>

(***************************************************************************)
(* C7: every returned RedirectRequest has a non-empty old_url and new_url, *)
(* each a URL-syntax token, and its new_url differs from its old_url.      *)
(***************************************************************************)
C7_RequestInvariant ==
  pc = "done" =>
    \A i \in 1..Len(requests) :
      /\ requests[i].old_url # <<>>
      /\ requests[i].new_url # <<>>
      /\ IsUrlToken(requests[i].old_url)
      /\ IsUrlToken(requests[i].new_url)
      /\ requests[i].new_url # requests[i].old_url

(***************************************************************************)
(* C8: the normalizer is idempotent: cleaning the cleaned text changes     *)
(* nothing.                                                                *)
(***************************************************************************)
C8_CleanIdempotent ==
  pc # "clean" => CleanSlackText(text) = text

(***************************************************************************)
(* C9: the normalizer replaces each wrapper <url|label> or <url> of its    *)
(* input by the bare url and leaves every other character as it is, and    *)
(* it runs before the reason and the URLs are extracted.                   *)
(***************************************************************************)
\* the input with each of its wrappers replaced by its url, in one pass
\* from the left, everything else copied
RECURSIVE UnwrapFrom(_, _)
UnwrapFrom(t, i) ==
  IF i > Len(t) THEN <<>>
  ELSE LET m == IF PipeWrapperAt(t, i).end # 0 THEN PipeWrapperAt(t, i)
                ELSE PlainWrapperAt(t, i)
       IN IF m.end = 0 THEN <<t[i]>> \o UnwrapFrom(t, i + 1)
          ELSE SubSeq(t, i + 1, m.gend) \o UnwrapFrom(t, m.end + 1)

C9_CleanUnwraps ==
  /\ pc = "clean" => (reason = None /\ redirects = <<>> /\ requests = <<>>)
  /\ pc # "clean" => text = UnwrapFrom(message, 1)

(***************************************************************************)
(* C10: when a line of the text is 'Reason:' followed by a non-blank X,    *)
(* the extracted reason is X stripped, and every returned request carries  *)
(* it.                                                                     *)
(***************************************************************************)
ReasonLine(line) ==
  StartsWithAt(line, 1, W_Reason) /\ Strip(Tail_(line, Len(W_Reason) + 1)) # <<>>

ReasonOfLine(line) == Some(Strip(Tail_(line, Len(W_Reason) + 1)))

C10_ReasonOfReasonLine ==
  pc = "done" =>
    \A k \in 1..Len(SplitLines(text)) :
      ReasonLine(SplitLines(text)[k]) =>
        /\ reason = ReasonOfLine(SplitLines(text)[k])
        /\ \A i \in 1..Len(requests) :
             requests[i].reason = ReasonOfLine(SplitLines(text)[k])

(***************************************************************************)
(* C11: _extract_reason recognises each of the label tokens 'reason',      *)
(* 'razon', 'razon' with the accented o, and 'motivo', in any letter case, *)
(* when a separator follows it, and returns None when the text holds none  *)
(* of these tokens.                                                        *)
(***************************************************************************)
\* the label tokens, lower-cased
ReasonLabelTokens ==
  { <<"r","e","a","s","o","n">>,
    <<"r","a","z","o","n">>,
    <<"r","a","z","U+00F3","n">>,
    <<"m","o","t","i","v","o">> }

\* a label token occurs at i of t, in any letter case
LabelTokenAt(t, i) ==
  \E w \in ReasonLabelTokens : StartsWithAt(LowerText(t), i, w)

HasLabelToken(t) == \E i \in 1..Len(t) : LabelTokenAt(t, i)

\* a label token followed by ':' or '-' and a reason on the same line
HasLabelledReason(t) ==
  \E i \in 1..Len(t) : \E w \in ReasonLabelTokens :
    /\ StartsWithAt(LowerText(t), i, w)
    /\ i + Len(w) + 2 <= Len(t)
    /\ t[i + Len(w)] \in {":", "-"}
    /\ t[i + Len(w) + 1] = " "
    /\ ~IsSpace(t[i + Len(w) + 2])

C11_ReasonLabels ==
  pc \notin {"clean", "reason"} =>
    /\ HasLabelledReason(text) => reason.some
    /\ ~HasLabelToken(text) => ~reason.some

(***************************************************************************)
(* C12: mark_as_processed returns True when Slack answers already_reacted  *)
(* (the message carries the reaction already), so every call after a       *)
(* successful one on the same message succeeds like the first unless       *)
(* another Slack error occurs, and it returns False on any other Slack     *)
(* error; the reaction, once set, stays.                                   *)
(***************************************************************************)
C12_MarkIdempotent ==
  \A n \in 1..Len(calls) :
    calls[n].op = "mark" =>
      /\ calls[n].error = "already_reacted" => calls[n].ok
      /\ calls[n].error \in OtherSlackErrors => ~calls[n].ok
      /\ calls[n].ok => channel[calls[n].arg].reacted
      /\ \A k \in 1..(n - 1) :
           (/\ calls[k].op = "mark"
            /\ calls[k].arg = calls[n].arg
            /\ calls[k].ok
            /\ calls[n].error \notin OtherSlackErrors) => calls[n].ok

\* mark_as_processed was called on a message that carried the reaction
\* from an earlier successful call, and returned True again
C12_Witness ==
  \E n \in 1..Len(calls) : \E k \in 1..(n - 1) :
    /\ calls[k].op = "mark" /\ calls[n].op = "mark"
    /\ calls[k].arg = calls[n].arg
    /\ calls[k].error = "ok"
    /\ calls[n].error = "already_reacted"
    /\ calls[n].ok

(***************************************************************************)
(* C13: get_unprocessed_messages returns only messages that do not carry   *)
(* the processed reaction, are no bot messages, have text and hold a URL;  *)
(* once mark_as_processed has succeeded for a message, no later call of    *)
(* parse_message and no later sheet write concerns that message.           *)
(***************************************************************************)
\* mark_as_processed returned True for ts before entry n of the log
MarkedBefore(ts, n) ==
  \E k \in 1..(n - 1) :
    calls[k].op = "mark" /\ calls[k].arg = ts /\ calls[k].ok

C13_OnlyUnhandledMessages ==
  /\ run.pc \in {"parse", "count", "write", "send"} =>
       \A k \in 1..Len(run.messages) :
         LET m == channel[run.messages[k]]
         IN /\ ~m.reacted
            /\ MsgSubtype(m.kind) # "bot_message"
            /\ MsgText(m.kind) # <<>>
            /\ HasUrl(MsgText(m.kind))
  /\ \A n \in 1..Len(calls) :
       /\ calls[n].op = "fetch" =>
            \A k \in 1..Len(calls[n].arg) : ~MarkedBefore(calls[n].arg[k], n)
       /\ calls[n].op = "parse" => ~MarkedBefore(calls[n].arg, n)
       /\ calls[n].op = "write" =>
            \A k \in 1..Len(calls[n].arg) :
              ~MarkedBefore(calls[n].arg[k].message_ts, n)

\* a later run fetched a message again whose marking had failed, and left
\* out a request that an earlier run had marked
C13_Witness ==
  \E n \in 1..Len(calls) : \E ts \in 1..Len(channel) :
    /\ calls[n].op = "fetch"
    /\ calls[n].arg # <<>>
    /\ MarkedBefore(ts, n)
    /\ UnprocessedIgnoringReaction(channel[ts])
    /\ \A k \in 1..Len(calls[n].arg) : calls[n].arg[k] # ts

(***************************************************************************)
(* C14: parse_message tries the strategies in the order A, B, C; its pairs *)
(* are the output of the first of them, in that order, whose output is not *)
(* empty (empty when all three are): B's output is used only when A's is   *)
(* empty, C's only when A's and B's are, and outputs are never merged.     *)
(***************************************************************************)
\* the output of the first strategy with a non-empty output
FirstNonEmpty(t) ==
  LET a == ParseLabeledFormat(t)
      b == ParseMultiOldUrls(t)
  IN IF a # <<>> THEN a
     ELSE IF b # <<>> THEN b
     ELSE ParseSequentialUrls(t)

C14_StrategyCascade ==
  /\ pc = "multi" => redirects = ParseLabeledFormat(text)
  /\ pc = "sequential" =>
       redirects = IF ParseLabeledFormat(text) # <<>>
                   THEN ParseLabeledFormat(text)
                   ELSE ParseMultiOldUrls(text)
  /\ pc = "build" => redirects = FirstNonEmpty(text)
  /\ pc = "done" => Pairs(requests) = FirstNonEmpty(text)

\* B's output was returned: A's is empty, B's is not and differs from C's
C14_Witness ==
  /\ pc = "done"
  /\ ParseLabeledFormat(text) = <<>>
  /\ ParseMultiOldUrls(text) # <<>>
  /\ ParseMultiOldUrls(text) # ParseSequentialUrls(text)
  /\ Pairs(requests) = ParseMultiOldUrls(text)

(***************************************************************************)
(* C15: in Strategy A's line scan the URLs of a line go to the accumulator *)
(* of the label of that same line; the URL of a line that begins with the *)
(* new label 'New: ' is appended to the NEW accumulator, also when the URL *)
(* holds an old-keyword substring such as 'de'.                            *)
(***************************************************************************)
\* the elements of a sequence
Range(seq) == {seq[i] : i \in 1..Len(seq)}

C15_NewLineGoesToNew ==
  (pc # "clean" /\ HasLabeledFormat(text)) =>
    \A k \in 1..Len(SplitLines(text)) :
      LET line == SplitLines(text)[k]
      IN LabelledUrlLine(line, NewLabelWords) =>
           /\ UrlOfLine(line, NewLabelWords) \in Range(LabeledScan(text).new_urls)
           /\ UrlOfLine(line, NewLabelWords) \notin Range(LabeledScan(text).old_urls)

(***************************************************************************)
(* C16: when the OLD and NEW accumulators of Strategy A differ in size and *)
(* NEW holds more than one URL, the output is the pairs (old[i], new[i])   *)
(* for i up to the smaller size: OLD URLs beyond the NEW count are         *)
(* discarded and no OLD URL is paired with two NEW URLs; when either       *)
(* accumulator is empty the output is empty.                               *)
(***************************************************************************)
C16_UnequalCounts ==
  (pc \notin {"clean", "reason", "labeled"} /\ HasLabeledFormat(text)) =>
    LET scan == LabeledScan(text)
        old == scan.old_urls
        new == scan.new_urls
        out == ParseLabeledFormat(text)
        least == IF Len(old) < Len(new) THEN Len(old) ELSE Len(new)
    IN /\ (old = <<>> \/ new = <<>>) => out = <<>>
       /\ (old # <<>> /\ Len(old) # Len(new) /\ Len(new) > 1) =>
            /\ out = [i \in 1..least |-> <<old[i], new[i]>>]
            /\ pc = "done" => Pairs(requests) = out

\* three OLD URLs and two NEW URLs: the third OLD URL is discarded
C16_Witness ==
  /\ pc = "done"
  /\ HasLabeledFormat(text)
  /\ Len(LabeledScan(text).old_urls) > Len(LabeledScan(text).new_urls)
  /\ Len(LabeledScan(text).new_urls) > 1
  /\ Len(requests) = Len(LabeledScan(text).new_urls)

(***************************************************************************)
(* C17: Strategy B pairs every complete URL token of the text that lies    *)
(* between the old-keyword match and the first new keyword after it with   *)
(* the first URL token after that segment; its output is empty when either *)
(* set is empty, and every URL of its output is a whole URL token of the   *)
(* text, never a fragment cut at a keyword inside a URL.                   *)
(***************************************************************************)
C17_MultiOldWholeTokens ==
  (pc = "sequential" /\ ParseLabeledFormat(text) = <<>>) =>
    /\ redirects = ParseMultiOldUrls(text)
    /\ \A i \in 1..Len(redirects) :
         /\ redirects[i][1] \in Range(FindAllUrls(text))
         /\ redirects[i][2] \in Range(FindAllUrls(text))
         /\ redirects[i][2] = redirects[1][2]

(***************************************************************************)
(* C18: every URL a strategy extracts starts with 'http://' or 'https://', *)
(* holds no whitespace and none of the characters < > " ' [ ] ( ), and     *)
(* does not end with one of . , ; : ! ?                                    *)
(***************************************************************************)
UrlSyntax(u) ==
  /\ StartsWithAt(u, 1, HTTP) \/ StartsWithAt(u, 1, HTTPS)
  /\ \A k \in 1..Len(u) :
       /\ ~IsSpace(u[k])
       /\ u[k] \notin {"<", ">", "\"", "'", "[", "]", "(", ")"}
  /\ u[Len(u)] \notin {".", ",", ";", ":", "!", "?"}

C18_UrlSyntax ==
  pc = "done" =>
    \A i \in 1..Len(requests) :
      UrlSyntax(requests[i].old_url) /\ UrlSyntax(requests[i].new_url)

(***************************************************************************)
(* C19: a reason that _extract_reason returns is the trimmed remainder of  *)
(* the line on which the label token occurs, never text of a following     *)
(* line; it holds no newline and is not empty.                             *)
(***************************************************************************)
\* v is the stripped rest, after a label token, of one line of t
RestOfLabelLine(t, v) ==
  \E k \in 1..Len(SplitLines(t)) :
    LET line == SplitLines(t)[k]
    IN \E i \in 1..Len(line) :
         /\ ReasonLabelLenAt(LowerText(line), i) # 0
         /\ \E j \in (i + ReasonLabelLenAt(LowerText(line), i))..(Len(line) + 1) :
              v = Strip(SubSeq(line, j, Len(line)))

C19_ReasonShape ==
  (pc \notin {"clean", "reason"} /\ reason.some) =>
    /\ reason.val # <<>>
    /\ \A k \in 1..Len(reason.val) : reason.val[k] # "\n"
    /\ RestOfLabelLine(text, reason.val)

(***************************************************************************)
(* C20: in RedirectAutomation.run every send_batch and every               *)
(* mark_as_processed of a run comes after a write_redirects of that run    *)
(* that returned True for the redirects concerned, and every send comes    *)
(* before every mark; a run whose ensure_sheet_exists or write_redirects   *)
(* returned False returns with an error entry and makes no send and no     *)
(* mark call; a message whose parse gave no redirect is never marked.      *)
(***************************************************************************)
\* entry w of the log is a successful write_redirects of run r before n
WrittenBefore(w, r, n) ==
  /\ w < n
  /\ calls[w].run = r
  /\ calls[w].op = "write"
  /\ calls[w].ok

C20_RunOrdering ==
  \A n \in 1..Len(calls) :
    LET c == calls[n]
    IN /\ c.op = "send" =>
            /\ \E w \in 1..Len(calls) :
                 /\ WrittenBefore(w, c.run, n)
                 /\ \A k \in 1..Len(c.arg) :
                      \E q \in 1..Len(calls[w].arg) : calls[w].arg[q] = c.arg[k]
            /\ \A m \in 1..Len(calls) :
                 (calls[m].op = "mark" /\ calls[m].run = c.run) => n < m
       /\ c.op = "mark" =>
            /\ \E w \in 1..Len(calls) :
                 /\ WrittenBefore(w, c.run, n)
                 /\ \E q \in 1..Len(calls[w].arg) :
                      calls[w].arg[q].message_ts = c.arg
            /\ \E p \in 1..(n - 1) :
                 /\ calls[p].run = c.run
                 /\ calls[p].op = "parse"
                 /\ calls[p].arg = c.arg
                 /\ calls[p].ok
            /\ \A p \in 1..Len(calls) :
                 (calls[p].run = c.run /\ calls[p].op = "parse"
                    /\ calls[p].arg = c.arg) => calls[p].ok
       /\ (c.op \in {"ensure", "write"} /\ ~c.ok) =>
            /\ \A m \in 1..Len(calls) :
                 calls[m].run = c.run => calls[m].op \notin {"send", "mark"}
            /\ \A m \in (n + 1)..Len(calls) : calls[m].run # c.run
            /\ c.run = run.n =>
                 (run.pc = "returned" /\ run.results.errors # <<>>)

\* a run stopped at a failed sheet write; the next run parsed a message
\* without redirects, wrote the sheet, sent a batch and marked a message
C20_Witness ==
  \E f, z, w, b, m \in 1..Len(calls) :
    /\ calls[f].op = "write" /\ ~calls[f].ok
    /\ calls[z].op = "parse" /\ ~calls[z].ok
    /\ calls[w].op = "write" /\ calls[w].ok
    /\ calls[b].op = "send"
    /\ calls[m].op = "mark"
    /\ calls[f].run < calls[w].run
    /\ calls[z].run = calls[w].run
    /\ calls[b].run = calls[w].run
    /\ calls[m].run = calls[w].run

(***************************************************************************)
(* C21: in RedirectAutomation.run, once write_redirects has returned True, *)
(* mark_as_processed is called exactly once for every message of the run   *)
(* that gave a redirect, whatever send_batch answered; a batch that failed *)
(* adds one error entry, is not sent again, and neither the later batches  *)
(* nor the marking step are left out.                                      *)
(***************************************************************************)
\* the entries of the log that run r made with the operation op
InRun(r, op) ==
  {n \in 1..Len(calls) : calls[n].run = r /\ calls[n].op = op}

\* run r has returned
RunOver(r) == r < run.n \/ (r = run.n /\ run.pc = "returned")

\* the messages of run r whose parse gave a redirect
WithRedirects(r) ==
  {calls[p].arg : p \in {q \in InRun(r, "parse") : calls[q].ok}}

\* the number of batches of n redirects
BatchCount(n) == (n + MAX_REDIRECTS_PER_BATCH - 1) \div MAX_REDIRECTS_PER_BATCH

C21_MarkingIgnoresDelivery ==
  \A w \in 1..Len(calls) :
    (calls[w].op = "write" /\ calls[w].ok) =>
      LET r == calls[w].run
          sends == InRun(r, "send")
          marks == InRun(r, "mark")
          failed == {n \in sends \cup marks : ~calls[n].ok}
      IN /\ \A ts \in WithRedirects(r) :
              Cardinality({m \in marks : calls[m].arg = ts}) <= 1
         /\ \A m \in marks : calls[m].arg \in WithRedirects(r)
         /\ Cardinality(sends) <= BatchCount(Len(calls[w].arg))
         /\ \A m \in marks :
              Cardinality(sends) = BatchCount(Len(calls[w].arg))
         /\ r = run.n => Len(run.results.errors) = Cardinality(failed)
         /\ RunOver(r) =>
              /\ Cardinality(sends) = BatchCount(Len(calls[w].arg))
              /\ \A ts \in WithRedirects(r) :
                   Cardinality({m \in marks : calls[m].arg = ts}) = 1

\* a run has returned in which two batches were sent, both failed, and two
\* messages were marked
C21_Witness ==
  \E r \in 1..MaxRuns :
    /\ RunOver(r)
    /\ Cardinality(InRun(r, "send")) = 2
    /\ \A n \in InRun(r, "send") : ~calls[n].ok
    /\ Cardinality(InRun(r, "mark")) = 2
    /\ \E n \in InRun(r, "mark") : calls[n].ok

(***************************************************************************)
(* C22: the batches RedirectAutomation.run sends are consecutive slices of *)
(* all_redirects, in order, each non-empty and of at most                  *)
(* MAX_REDIRECTS_PER_BATCH redirects, and together they hold every         *)
(* redirect exactly once; redirects_sent_to_n8n is the sum of the sizes of *)
(* the batches whose send succeeded and never exceeds redirects_found.     *)
(***************************************************************************)
RECURSIVE SentBy(_, _)
\* the batches run r sent in the first n entries of the log, joined in order
SentBy(r, n) ==
  IF n = 0 THEN <<>>
  ELSE SentBy(r, n - 1) \o
       (IF calls[n].run = r /\ calls[n].op = "send" THEN calls[n].arg
        ELSE <<>>)

RECURSIVE SentOk(_, _)
\* the sizes, added up, of the batches of run r in the first n entries of
\* the log whose send succeeded
SentOk(r, n) ==
  IF n = 0 THEN 0
  ELSE SentOk(r, n - 1) +
       (IF calls[n].run = r /\ calls[n].op = "send" /\ calls[n].ok
        THEN Len(calls[n].arg) ELSE 0)

C22_Batching ==
  \A w \in 1..Len(calls) :
    (calls[w].op = "write" /\ calls[w].ok) =>
      LET r == calls[w].run
          all == calls[w].arg
          sent == SentBy(r, Len(calls))
      IN /\ \A n \in InRun(r, "send") :
              /\ calls[n].arg # <<>>
              /\ Len(calls[n].arg) <= MAX_REDIRECTS_PER_BATCH
              /\ w < n
         /\ Len(sent) <= Len(all)
         /\ sent = SubSeq(all, 1, Len(sent))
         /\ (RunOver(r) \/ InRun(r, "mark") # {}) => sent = all
         /\ r = run.n =>
              /\ run.results.redirects_found = Len(all)
              /\ run.results.redirects_sent_to_n8n = SentOk(r, Len(calls))
              /\ run.results.redirects_sent_to_n8n
                   <= run.results.redirects_found

\* a run has returned that sent 6 redirects in a batch of 5 and a batch of
\* 1, and one of the two sends failed
C22_Witness ==
  \E a, b \in 1..Len(calls) :
    /\ a < b
    /\ calls[a].op = "send" /\ calls[b].op = "send"
    /\ calls[a].run = run.n /\ calls[b].run = run.n
    /\ Len(calls[a].arg) = MAX_REDIRECTS_PER_BATCH
    /\ Len(calls[b].arg) = 1
    /\ calls[a].ok # calls[b].ok
    /\ run.pc = "returned"
    /\ run.results.redirects_sent_to_n8n \in {1, MAX_REDIRECTS_PER_BATCH}

====
